---- MODULE Spec2Model ----
(***************************************************************************)
(* Model of roo-rules-server: an MCP server that exposes the markdown      *)
(* rules of one source as resources.  Two variants exist, one per source   *)
(* file:                                                                   *)
(*   Remote  src/src/index.ts      rules fetched from the GitHub API       *)
(*   Local   src/unnamed/part_000  rules read from a local directory       *)
(* Exactly one variant runs in a process; `variant` selects it.            *)
(*                                                                         *)
(* Every `await` of the source is a point where other callbacks may run,   *)
(* so every asynchronous function is cut into steps at its awaits.  An     *)
(* await of a network answer ends when the answer arrives.  An await of a  *)
(* call that has returned ends in the run of the microtask queue that the  *)
(* return happened in: until then no timer fires, no request arrives and   *)
(* every other cycle continues at most once (`mq`, `ran`).                 *)
(* A mapping filename -> Rule is a function; the code never changes a      *)
(* mapping after it has returned it, so a reference to one is its value.   *)
(***************************************************************************)
EXTENDS Integers, Sequences, FiniteSets, TLC

\* ---------------------------------------------------------------- bounds
\* Number of refresh cycles (calls of fetchRulesFromGitHub) in flight at once.
MaxInFlight == 2

\* ----------------------------------------------------------- the source
\* The rule file that is added, changed and deleted while the server runs,
\* and a rule file that is always there.
ChangingFile == "a.md"
StableFile == "b.md"
\* Document bodies a file may hold.
Bodies == {"v1", "v2"}
\* The body of StableFile.
StableBody == "v1"
\* Stands for a file that does not exist.
Absent == "absent"

\* Entries that are always in the directory and are not rule files:
\* a sub-directory whose name ends in .md and a file whose name does not.
SubDir == [name |-> "docs.md", sha |-> <<"tree">>, type |-> "dir"]
OtherFile == [name |-> "notes.txt", sha |-> <<"blob", "notes">>, type |-> "file"]

\* The names the model uses, in the order a directory listing gives them.
NameOrder == <<"a.md", "b.md", "docs.md", "notes.txt">>

\* file.name.endsWith('.md')
EndsWithMd(name) == name \in {"a.md", "b.md", "docs.md"}

\* The blob identifier git gives a body: a hash of the content.
ShaOf(body) == <<"blob", body>>

VARIABLES
    variant,      \* "Remote" or "Local"
    phase,        \* "loading" while main() runs, then "serving"
    src,          \* the source: the body of ChangingFile, or Absent
    dirExists,    \* Local: the rules directory exists
    cachedRules,  \* the module variable cachedRules: filename -> Rule
    lastEtag,     \* the module variable lastEtag: <<>> is null, else <<etag>>
    cyc,          \* Remote: the refresh cycles in flight, by slot
    mq,           \* Remote: the cycles that returned, their callers queued
    ran,          \* Remote: the cycles that continued while mq was not empty
    resp,         \* the answer the last step gave a caller, if it gave one
    proc,         \* the process: "running", "exit0" (process.exit(0)), "killed"
    bg,           \* the interval timer / directory watcher: "none", "active", "closed"
    calm,         \* the source has stopped changing and every request succeeds
    titled,       \* a body and a name, and the titles computed for them
    trip          \* a listed entry, and what reading its identifier gave

\* The variables that Spec and SpecLocal leave as they are: there no signal
\* arrives, the source never calms down, no title is computed and no
\* identifier is followed back.
life == <<proc, bg, calm, titled, trip>>

vars == <<variant, phase, src, dirExists, cachedRules, lastEtag, cyc, mq, ran, resp,
          proc, bg, calm, titled, trip>>

Slots == 1..MaxInFlight

\* An object without properties: {}.
EmptyMap == [n \in {} |-> 0]
\* Object.keys(rules)
Keys(rules) == DOMAIN rules

\* resp after a step that answered no request.  op, uri: the request;
\* status, uris, text: what the caller got.  The other fields record the
\* refresh the call made: cachedRules before the answering step, how the
\* refresh ended, the rule files its listing named and those it could not get.
NoResp ==
    [op |-> "none", uri |-> "", status |-> "none", uris |-> <<>>, text |-> "",
     before |-> EmptyMap, outcome |-> "none", listed |-> {}, failed |-> {},
     diff |-> "none", built |-> EmptyMap]

\* A free slot.
Unused ==
    [kind |-> "none", pc |-> "unused", etagSent |-> <<>>,
     seen |-> [status |-> "none", files |-> <<>>],
     from |-> <<>>, todo |-> <<>>, listed |-> {}, failed |-> {}, fetches |-> 0,
     rules |-> EmptyMap, ret |-> EmptyMap, threw |-> FALSE,
     uri |-> "", outcome |-> "none"]

\* ------------------------------------------------------ identifiers (URIs)
\* The identifiers a caller may pass to readResource.  "a.md" has no scheme;
\* "constructor" is the name of no rule file.
ReadUris == {"rule:///a.md", "rule:///constructor", "a.md"}

\* An identifier that left the name out.
UriOfNoName(filename) == "rule:///"

\* `rule:///${filename}`
UriOf(filename) ==
    CASE filename = "a.md" -> "rule:///a.md"
      [] filename = "b.md" -> "rule:///b.md"
      [] filename = "docs.md" -> "rule:///docs.md"
      [] filename = "notes.txt" -> "rule:///notes.txt"

\* new URL(uri): a string without a scheme is not a URL and new URL throws.
UrlValid(uri) ==
    uri \in {"rule:///a.md", "rule:///b.md", "rule:///docs.md", "rule:///notes.txt",
             "rule:///constructor"}

\* new URL(uri).pathname, for the identifiers above
UrlPathname(uri) ==
    CASE uri = "rule:///a.md" -> "/a.md"
      [] uri = "rule:///b.md" -> "/b.md"
      [] uri = "rule:///docs.md" -> "/docs.md"
      [] uri = "rule:///notes.txt" -> "/notes.txt"
      [] uri = "rule:///constructor" -> "/constructor"

\* pathname.replace(/^\//, '')
StripSlash(path) ==
    CASE path = "/a.md" -> "a.md"
      [] path = "/b.md" -> "b.md"
      [] path = "/docs.md" -> "docs.md"
      [] path = "/notes.txt" -> "notes.txt"
      [] path = "/constructor" -> "constructor"

\* The filename the ReadResource handler looks up.
FilenameOf(uri) == StripSlash(UrlPathname(uri))

\* ------------------------------------------------------------ the source
\* The body of a rule file in source state s, or Absent.
BodyOf(s, name) == IF name = ChangingFile THEN s ELSE StableBody

Exists(s, name) == name # ChangingFile \/ s # Absent

EntryOf(s, name) ==
    CASE name = SubDir.name -> SubDir
      [] name = OtherFile.name -> OtherFile
      [] OTHER -> [name |-> name, sha |-> ShaOf(BodyOf(s, name)), type |-> "file"]

\* The body of a 200 answer to the directory-listing request.
Listing(s) ==
    LET names == SelectSeq(NameOrder, LAMBDA n : Exists(s, n))
    IN  [i \in 1..Len(names) |-> EntryOf(s, names[i])]

\* The ETag of a listing answer: a hash of its body.
EtagOf(s) == <<Listing(s)>>

\* What the API answers to a listing request that carried etagSent, when it
\* answers: 304 if the validator matches, else the listing.
ListingResponse(etagSent) ==
    IF etagSent = EtagOf(src)
    THEN [status |-> "304", files |-> <<>>]
    ELSE [status |-> "200", files |-> Listing(src)]

\* --------------------------------------------------- fetchRulesFromGitHub
\* files.filter(file => file.type === 'file' && file.name.endsWith('.md'))
IsRuleFile(file) == file.type = "file" /\ EndsWithMd(file.name)

MdFiles(files) == SelectSeq(files, IsRuleFile)

SeqNames(files) == {files[i].name : i \in 1..Len(files)}

\* The catch block (lines 136-145): the cached rules if there are any,
\* else the cycle's rules.
CatchReturn(c) == IF Keys(cachedRules) # {} THEN cachedRules ELSE cyc[c].rules

\* A catch block that logged the error and threw it again.
CatchRethrows(c) == TRUE

\* The catch block returns; it does not throw again.
CatchThrows(c) == FALSE

\* The 304 branch (line 83): return cachedRules.
NotModifiedReturn(c) == cachedRules

\* if (newEtag) lastEtag = newEtag
StoreEtag(old, new) == IF new # <<>> THEN new ELSE old

\* rules[file.name] = { filename, title, content, sha }
\* (title is a function of content and filename).  `listing` is a history
\* field, not a property of the object: the listing the file was taken from.
RuleOf(file, content, listing) ==
    [filename |-> file.name, content |-> content, sha |-> file.sha,
     listing |-> listing]

Put(rules, name, rule) == (name :> rule) @@ rules

\* A download that succeeded: rules[file.name] = ... (lines 120-128).
OnFetched(c, file, content) ==
    Put(cyc[c].rules, file.name, RuleOf(file, content, cyc[c].from))

\* A failure branch that fell back on the cached version of the file.
OnFetchFailureKeepsCached(c, file) ==
    IF file.name \in Keys(cachedRules)
    THEN Put(cyc[c].rules, file.name, cachedRules[file.name])
    ELSE cyc[c].rules

\* A download that failed leaves rules as it is (lines 115-118, 129-131).
OnFetchFailure(c, file) == cyc[c].rules

\* ------------------------------------------------------ request handlers
\* Object.entries(rules).map(([filename, rule]) => ({ uri: `rule:///${filename}`, ... }))
\* Properties are enumerated in insertion order, the order of the listing.
ResourcesOf(rules) ==
    LET names == SelectSeq(NameOrder, LAMBDA n : n \in DOMAIN rules)
    IN  [i \in 1..Len(names) |-> UriOf(names[i])]

\* The answer of the ListResources handler for the mapping `rules`.
ListAnswer(rules) == [NoResp EXCEPT !.op = "list", !.status = "ok", !.uris = ResourcesOf(rules)]

\* The value undefined.
Undefined == "undefined"

\* rules is an object literal ({}), so it inherits the properties of
\* Object.prototype: constructor, toString, valueOf, hasOwnProperty, ...
\* The model has one of them.
ObjectPrototype == {"constructor"}

\* The value of an inherited property: a function, which is truthy and has
\* no property `content`.
Inherited == [content |-> Undefined]

\* const rule = rules[filename]: an own property, else an inherited one, else
\* undefined (here <<>>).
Lookup(rules, filename) ==
    CASE filename \in DOMAIN rules -> <<rules[filename]>>
      [] filename \in ObjectPrototype -> <<Inherited>>
      [] OTHER -> <<>>

\* The answer of the ReadResource handler for `uri` and the mapping `rules`:
\* if (!rule) throw new Error(`Rule ${filename} not found`), else the content.
ReadAnswer(uri, rules) ==
    LET rule == Lookup(rules, FilenameOf(uri))
    IN  IF rule = <<>>
        THEN [NoResp EXCEPT !.op = "read", !.uri = uri, !.status = "NotFound"]
        ELSE [NoResp EXCEPT !.op = "read", !.uri = uri, !.status = "ok",
                            !.text = rule[1].content]

\* new URL(request.params.uri) throws before getRules is called.
InvalidUrlAnswer(uri) == [NoResp EXCEPT !.op = "read", !.uri = uri, !.status = "TypeError"]

\* await getRules() rejects in a handler: the request fails with that error.
SourceErrorAnswer(kind, uri) ==
    [NoResp EXCEPT !.op = kind, !.uri = uri, !.status = "SourceError"]

\* ------------------------------------------------------ Remote: operations
\* No caller of a returned fetchRulesFromGitHub is waiting to continue.
Quiet == mq = <<>>

\* Cycle c may continue after the await of a network answer.
MayContinue(c) == c \notin ran

\* ran and mq after cycle c has continued; `returned`: the call returned.
Continued(c, returned) ==
    /\ ran' = IF Quiet /\ ~returned THEN ran ELSE ran \cup {c}
    /\ mq' = IF returned THEN Append(mq, c) ELSE mq

\* The synchronous head of fetchRulesFromGitHub (lines 63-78): a new rules
\* object, the headers built from lastEtag, the listing request sent.
StartCycle(c, kind, uri) ==
    /\ Quiet
    /\ cyc[c].pc = "unused"
    /\ cyc' = [cyc EXCEPT ![c] = [Unused EXCEPT !.kind = kind, !.pc = "listing",
                                    !.etagSent = lastEtag, !.uri = uri]]

\* A ListResources request arrives: lines 223-224 up to the first await.
RemoteListStart(c) ==
    /\ variant = "Remote" /\ phase = "serving"
    /\ StartCycle(c, "list", "")
    /\ resp' = NoResp
    /\ UNCHANGED <<variant, phase, src, dirExists, cachedRules, lastEtag, mq, ran>>

\* A ReadResource request arrives: lines 240-244 up to the first await.
RemoteReadStart(c, uri) ==
    /\ variant = "Remote" /\ phase = "serving"
    /\ IF UrlValid(uri)
       THEN /\ StartCycle(c, "read", uri)
            /\ resp' = NoResp
       ELSE /\ Quiet
            /\ resp' = [InvalidUrlAnswer(uri) EXCEPT !.before = cachedRules]
            /\ UNCHANGED cyc
    /\ UNCHANGED <<variant, phase, src, dirExists, cachedRules, lastEtag, mq, ran>>

\* The interval timer fires: lines 162-165 up to the first await.
PollStart(c) ==
    /\ variant = "Remote" /\ phase = "serving"
    /\ StartCycle(c, "poll", "")
    /\ resp' = NoResp
    /\ UNCHANGED <<variant, phase, src, dirExists, cachedRules, lastEtag, mq, ran>>

\* The API answers the listing request of cycle c.
ServerListing(c) ==
    /\ variant = "Remote"
    /\ Quiet
    /\ cyc[c].pc = "listing"
    /\ cyc' = [cyc EXCEPT ![c].pc = "response", ![c].etagSent = <<>>,
                          ![c].seen = ListingResponse(cyc[c].etagSent)]
    /\ resp' = NoResp
    /\ UNCHANGED <<variant, phase, src, dirExists, cachedRules, lastEtag, mq, ran>>

\* await fetch(apiUrl) rejects, or settles with a status that is neither 304
\* nor 2xx: lines 78, 86-88 and the catch block, lines 136-145.
ListingFails(c) ==
    /\ variant = "Remote"
    /\ cyc[c].pc = "listing"
    /\ MayContinue(c)
    /\ cyc' = [cyc EXCEPT ![c].pc = "returned", ![c].etagSent = <<>>,
                          ![c].outcome = "listfail", ![c].ret = CatchReturn(c),
                          ![c].threw = CatchThrows(c)]
    /\ Continued(c, TRUE)
    /\ resp' = NoResp
    /\ UNCHANGED <<variant, phase, src, dirExists, cachedRules, lastEtag>>

\* await fetch(apiUrl) settles with 304 or 200: lines 78-108.  The API
\* sends an etag header with every 200; jsonOk: the body parses.
ReceiveListing(c) ==
    /\ variant = "Remote"
    /\ cyc[c].pc = "response"
    /\ MayContinue(c)
    /\ LET r == cyc[c].seen
           md == MdFiles(r.files)
       IN  IF r.status = "304"
           THEN /\ cyc' = [cyc EXCEPT ![c].pc = "returned", ![c].outcome = "304",
                                      ![c].seen = Unused.seen,
                                      ![c].ret = NotModifiedReturn(c)]
                /\ Continued(c, TRUE)
                /\ UNCHANGED lastEtag
           ELSE \E jsonOk \in BOOLEAN :
                /\ lastEtag' = StoreEtag(lastEtag, <<r.files>>)
                /\ cyc' = IF ~jsonOk
                          THEN [cyc EXCEPT ![c].pc = "parsing", ![c].seen = Unused.seen]
                          ELSE [cyc EXCEPT
                                 ![c].pc = IF md = <<>> THEN "returned" ELSE "fetching",
                                 ![c].outcome = IF md = <<>> THEN "built" ELSE "none",
                                 ![c].ret = cyc[c].rules,
                                 ![c].seen = Unused.seen,
                                 ![c].from = IF md = <<>> THEN <<>> ELSE r.files,
                                 ![c].todo = md, ![c].listed = SeqNames(md)]
                /\ Continued(c, jsonOk /\ md = <<>>)
    /\ resp' = NoResp
    /\ UNCHANGED <<variant, phase, src, dirExists, cachedRules>>

\* await response.json() rejects: the catch block runs (lines 96, 136-145).
ParseFail(c) ==
    /\ variant = "Remote"
    /\ cyc[c].pc = "parsing"
    /\ cyc' = [cyc EXCEPT ![c].pc = "returned", ![c].outcome = "badjson",
                          ![c].ret = CatchReturn(c), ![c].threw = CatchThrows(c)]
    /\ Continued(c, TRUE)
    /\ resp' = NoResp
    /\ UNCHANGED <<variant, phase, src, dirExists, cachedRules, lastEtag>>

\* One turn of the loop over mdFiles (lines 109-132), and the return that
\* follows the last turn (lines 134, 145).  The download answers with the
\* body the file has now; it fails if the file is gone, and may fail anyway.
FetchContent(c) ==
    /\ variant = "Remote"
    /\ cyc[c].pc = "fetching"
    /\ MayContinue(c)
    /\ LET file == Head(cyc[c].todo)
           rest == Tail(cyc[c].todo)
           body == BodyOf(src, file.name)
           step(rules, failed) ==
               [cyc EXCEPT ![c].todo = rest,
                           ![c].from = IF rest = <<>> THEN <<>> ELSE @,
                           ![c].fetches = @ + 1,
                           ![c].failed = @ \cup failed,
                           ![c].rules = rules,
                           ![c].pc = IF rest = <<>> THEN "returned" ELSE "fetching",
                           ![c].outcome = IF rest = <<>> THEN "built" ELSE "none",
                           ![c].ret = IF rest = <<>> THEN rules ELSE EmptyMap]
       IN  /\ \E ok \in BOOLEAN :
                IF ok /\ body # Absent
                THEN cyc' = step(OnFetched(c, file, body), {})
                ELSE /\ ~ok
                     /\ cyc' = step(OnFetchFailure(c, file), {file.name})
           /\ Continued(c, rest = <<>>)
    /\ resp' = NoResp
    /\ UNCHANGED <<variant, phase, src, dirExists, cachedRules, lastEtag>>

\* What the timer callback logs of the old and the new mapping (lines
\* 167-181): "list" for 'Rules list changed', "content" for 'Rule ... content
\* changed', "same" for nothing.
PollDiff(old, new) ==
    CASE Keys(old) # Keys(new) -> "list"
      [] \E key \in Keys(old) : old[key].sha # new[key].sha -> "content"
      [] OTHER -> "same"

\* A timer callback that assigned the new mapping only when it had logged
\* a change.
PublishedIfChanged(c) ==
    IF cyc[c].threw \/ (cyc[c].kind = "poll" /\ PollDiff(cachedRules, cyc[c].ret) = "same")
    THEN cachedRules
    ELSE cyc[c].ret

\* An assignment that added the result to the cached mapping
\* (Object.assign(cachedRules, result)) instead of replacing it.
PublishedMerged(c) == IF cyc[c].threw THEN cachedRules ELSE cyc[c].ret @@ cachedRules

\* The value the caller of fetchRulesFromGitHub assigns to cachedRules:
\* cachedRules = await fetchRulesFromGitHub() (line 152), cachedRules =
\* newRules (line 183).  A rejection skips the assignment.
Published(c) == IF cyc[c].threw THEN cachedRules ELSE cyc[c].ret

\* What the handler of cycle c answers: getRules returns cachedRules right
\* after the assignment (line 153), or rejects.
AnswerOf(c) ==
    CASE cyc[c].kind \notin {"list", "read"} -> NoResp
      [] cyc[c].threw -> SourceErrorAnswer(cyc[c].kind, cyc[c].uri)
      [] cyc[c].kind = "list" -> ListAnswer(Published(c))
      [] OTHER -> ReadAnswer(cyc[c].uri, Published(c))

\* What resp records of a timer callback that ends: whether the call threw,
\* how the cycle ended, the mapping it returned, the cached mapping that was
\* compared with it and what was logged of the two.
PollRecord(c) ==
    IF cyc[c].threw
    THEN [NoResp EXCEPT !.op = "poll", !.status = "Error",
                        !.before = cachedRules, !.outcome = cyc[c].outcome]
    ELSE [NoResp EXCEPT !.op = "poll", !.status = "ok",
                        !.before = cachedRules, !.outcome = cyc[c].outcome,
                        !.built = cyc[c].ret,
                        !.diff = PollDiff(cachedRules, cyc[c].ret)]

\* await fetchRulesFromGitHub() settles in its caller:
\*   getRules   cachedRules = <result>; return cachedRules (lines 152-153);
\*              the handler that awaits getRules then answers from the
\*              mapping it was handed (lines 224-233, 244-257).  It reads
\*              and writes no variable of the module after getRules has
\*              returned, so its answer is taken in the same step.
\*   poll       lines 166-186
\*   main       goes on to setupGitHubPolling and server.connect (lines
\*              267-273), or exits with code 1 (lines 277-280)
Publish(c) ==
    /\ variant = "Remote"
    /\ mq # <<>> /\ c = Head(mq)
    /\ cachedRules' = Published(c)
    /\ resp' = IF cyc[c].kind \in {"list", "read"}
                THEN [AnswerOf(c) EXCEPT !.before = cachedRules,
                                         !.outcome = cyc[c].outcome,
                                         !.listed = cyc[c].listed,
                                         !.failed = cyc[c].failed]
                ELSE IF cyc[c].kind = "poll" THEN PollRecord(c)
                ELSE NoResp
    /\ cyc' = [cyc EXCEPT ![c] = Unused]
    /\ mq' = Tail(mq)
    /\ ran' = IF mq' = <<>> THEN {} ELSE ran \ {c}
    /\ phase' = CASE cyc[c].kind # "init" -> phase
                  [] cyc[c].threw -> "failed"
                  [] OTHER -> "serving"
    /\ UNCHANGED <<variant, src, dirExists, lastEtag>>

\* ------------------------------------------------------- Local: operations
\* The entries fs.readdirSync returns.
DirEntries == IF dirExists THEN Listing(src) ELSE <<>>

\* files.filter(file => file.endsWith('.md'))
LocalIsRuleFile(file) == EndsWithMd(file.name)

\* fs.readFileSync throws for a directory, and for the files in `failed`.
Unreadable(file, failed) == file.type = "dir" \/ file.name \in failed

\* rules[filename] = { filename, title, content }; listing as in RuleOf.
LocalRuleOf(file) ==
    [filename |-> file.name, content |-> BodyOf(src, file.name),
     listing |-> DirEntries]

\* A loadRules that kept the cached rules when the directory is missing.
MissingDirKeepsCache == cachedRules

\* The directory does not exist (lines 45-48): return rules, still empty.
MissingDirRules == EmptyMap

\* fs.readdirSync throws: the outer catch (lines 80-84) returns rules, still empty.
ReaddirErrorRules == EmptyMap

\* The files loadRules goes through (lines 50-53).
LocalMdFiles == SelectSeq(DirEntries, LocalIsRuleFile)

\* How a call of loadRules ends.
LocalOutcome(readdirOk) ==
    CASE ~dirExists -> "nodir"
      [] ~readdirOk -> "readdirfail"
      [] OTHER -> "built"

\* loadRules(): the mapping it returns.
LoadRules(readdirOk, failed) ==
    CASE ~dirExists -> MissingDirRules
      [] ~readdirOk -> ReaddirErrorRules
      [] OTHER ->
           LET md == LocalMdFiles
               ok == {i \in 1..Len(md) : ~Unreadable(md[i], failed)}
           IN  [n \in {md[i].name : i \in ok} |->
                  LocalRuleOf(CHOOSE f \in {md[i] : i \in ok} : f.name = n)]

\* What resp records of a call of loadRules.
LocalRecord(answer, readdirOk, failed) ==
    LET md == LocalMdFiles
        built == LocalOutcome(readdirOk) = "built"
    IN  [answer EXCEPT
           !.before = cachedRules,
           !.outcome = LocalOutcome(readdirOk),
           !.listed = IF built THEN SeqNames(md) ELSE {},
           !.failed = IF built
                      THEN {md[i].name : i \in {j \in 1..Len(md) : Unreadable(md[j], failed)}}
                      ELSE {}]

\* A getRules that loaded the rules once and then served the cache.
LocalGetRulesCached(readdirOk, failed) ==
    IF Keys(cachedRules) # {} THEN cachedRules ELSE LoadRules(readdirOk, failed)

\* getRules(): cachedRules = loadRules(); return cachedRules (lines 90-96).
LocalGetRules(readdirOk, failed) == LoadRules(readdirOk, failed)

LocalFailures == SUBSET {ChangingFile, StableFile}

\* main(): setupFileWatcher(); getRules(); server.connect (lines 196-206).
LocalMain ==
    /\ variant = "Local" /\ phase = "loading"
    /\ \E readdirOk \in BOOLEAN, failed \in LocalFailures :
         cachedRules' = LocalGetRules(readdirOk, failed)
    /\ phase' = "serving"
    /\ resp' = NoResp
    /\ UNCHANGED <<variant, src, dirExists, lastEtag, cyc, mq, ran>>

\* The ListResources handler (lines 155-166).
LocalList ==
    /\ variant = "Local" /\ phase = "serving"
    /\ \E readdirOk \in BOOLEAN, failed \in LocalFailures :
         /\ cachedRules' = LocalGetRules(readdirOk, failed)
         /\ resp' = LocalRecord(ListAnswer(cachedRules'), readdirOk, failed)
    /\ UNCHANGED <<variant, phase, src, dirExists, lastEtag, cyc, mq, ran>>

\* The ReadResource handler (lines 172-190).
LocalRead(uri) ==
    /\ variant = "Local" /\ phase = "serving"
    /\ IF UrlValid(uri)
       THEN \E readdirOk \in BOOLEAN, failed \in LocalFailures :
              /\ cachedRules' = LocalGetRules(readdirOk, failed)
              /\ resp' = LocalRecord(ReadAnswer(uri, cachedRules'), readdirOk, failed)
       ELSE /\ resp' = [InvalidUrlAnswer(uri) EXCEPT !.before = cachedRules]
            /\ UNCHANGED cachedRules
    /\ UNCHANGED <<variant, phase, src, dirExists, lastEtag, cyc, mq, ran>>

\* ------------------------------------------------------------ environment
\* The changing file of the source is added, changed or deleted.
SourceChange(v) ==
    /\ Quiet
    /\ dirExists
    /\ src # v
    /\ src' = v
    /\ resp' = NoResp
    /\ UNCHANGED <<variant, phase, dirExists, cachedRules, lastEtag, cyc, mq, ran>>

\* Local: the rules directory is removed with all it holds.
DirRemove ==
    /\ variant = "Local" /\ dirExists
    /\ dirExists' = FALSE
    /\ src' = Absent
    /\ resp' = NoResp
    /\ UNCHANGED <<variant, phase, cachedRules, lastEtag, cyc, mq, ran>>

\* Local: the rules directory is put back.
DirCreate ==
    /\ variant = "Local" /\ ~dirExists
    /\ dirExists' = TRUE
    /\ resp' = NoResp
    /\ UNCHANGED <<variant, phase, src, cachedRules, lastEtag, cyc, mq, ran>>

\* ------------------------------------------------------------------ Init
\* trip while no identifier has been followed back.
NoTrip == [snapshot |-> {}, name |-> <<>>, uri |-> <<>>, filename |-> <<>>,
           status |-> "none", text |-> <<>>]

\* titled while no title has been computed.
NoTitle == [body |-> <<>>, name |-> <<>>, remote |-> <<>>, local |-> <<>>]

SourceStates == Bodies \cup {Absent}

\* cachedRules = {} and lastEtag = null (lines 42-43 / 35-36).
\* Remote: main() has called getRules(), whose listing request is in flight
\* (lines 264-267).  Local: main() is about to run.
InitCommon ==
    /\ phase = "loading"
    /\ cachedRules = EmptyMap
    /\ lastEtag = <<>>
    /\ mq = <<>>
    /\ ran = {}
    /\ resp = NoResp
    /\ proc = "running"
    /\ bg = "none"
    /\ calm = FALSE
    /\ titled = NoTitle
    /\ trip = NoTrip

InitRemote ==
    /\ variant = "Remote"
    /\ dirExists = TRUE
    /\ src \in SourceStates
    /\ cyc = [c \in Slots |->
                IF c = 1 THEN [Unused EXCEPT !.kind = "init", !.pc = "listing"]
                ELSE Unused]
    /\ InitCommon

InitLocal ==
    /\ variant = "Local"
    /\ dirExists \in BOOLEAN
    /\ src \in IF dirExists THEN SourceStates ELSE {Absent}
    /\ cyc = [c \in Slots |-> Unused]
    /\ InitCommon

Init == InitRemote \/ InitLocal

NextRemote ==
    \/ \E c \in Slots : RemoteListStart(c) /\ UNCHANGED life
    \/ \E c \in Slots, uri \in ReadUris : RemoteReadStart(c, uri) /\ UNCHANGED life
    \/ \E c \in Slots : PollStart(c) /\ UNCHANGED life
    \/ \E c \in Slots : ServerListing(c) /\ UNCHANGED life
    \/ \E c \in Slots : ListingFails(c) /\ UNCHANGED life
    \/ \E c \in Slots : ReceiveListing(c) /\ UNCHANGED life
    \/ \E c \in Slots : ParseFail(c) /\ UNCHANGED life
    \/ \E c \in Slots : FetchContent(c) /\ UNCHANGED life
    \/ \E c \in Slots : Publish(c) /\ UNCHANGED life
    \/ \E v \in SourceStates : SourceChange(v) /\ UNCHANGED life

NextLocal ==
    \/ LocalMain /\ UNCHANGED life
    \/ LocalList /\ UNCHANGED life
    \/ \E uri \in ReadUris : LocalRead(uri) /\ UNCHANGED life
    \/ \E v \in SourceStates : SourceChange(v) /\ UNCHANGED life
    \/ DirRemove /\ UNCHANGED life
    \/ DirCreate /\ UNCHANGED life

Next == NextRemote \/ NextLocal

\* Either variant.
Spec == Init /\ [][Next]_vars

\* The Local variant alone.
SpecLocal == InitLocal /\ [][NextLocal]_vars

\* ------------------------------------------------------- the process's life
\* Remote, main() after await getRules() (lines 267-270): setupGitHubPolling
\* starts the interval timer and registers the SIGINT and SIGTERM handlers
\* (lines 159-199).
RemoteStarted(c) ==
    /\ proc = "running"
    /\ cyc[c].kind = "init"
    /\ Publish(c)
    /\ bg' = IF cyc[c].threw THEN bg ELSE "active"
    /\ UNCHANGED <<proc, calm, titled, trip>>

\* Remote: the interval timer fires (lines 162-165); it does while it is set.
RemotePoll(c) ==
    /\ proc = "running" /\ bg = "active"
    /\ PollStart(c)
    /\ UNCHANGED life

\* Remote: a refresh cycle goes on; the source changes.
RemoteStep ==
    \/ \E c \in Slots : proc = "running" /\ ServerListing(c) /\ UNCHANGED life
    \/ \E c \in Slots : proc = "running" /\ ListingFails(c) /\ UNCHANGED life
    \/ \E c \in Slots : proc = "running" /\ ReceiveListing(c) /\ UNCHANGED life
    \/ \E c \in Slots : proc = "running" /\ ParseFail(c) /\ UNCHANGED life
    \/ \E c \in Slots : proc = "running" /\ FetchContent(c) /\ UNCHANGED life
    \/ \E c \in Slots : proc = "running" /\ cyc[c].kind # "init" /\ Publish(c) /\ UNCHANGED life
    \/ \E v \in SourceStates : proc = "running" /\ variant = "Remote" /\ SourceChange(v) /\ UNCHANGED life

\* Local, main() (lines 196-201): setupFileWatcher (lines 101-131) returns
\* at once if the directory is missing, and leaves through its catch block if
\* fs.watch throws; only after fs.watch has returned does it register the
\* SIGINT and SIGTERM handlers.  Then getRules().
LocalStarted ==
    /\ proc = "running"
    /\ LocalMain
    /\ \E watchOk \in BOOLEAN :
          bg' = IF dirExists /\ watchOk THEN "active" ELSE "none"
    /\ UNCHANGED <<proc, calm, titled, trip>>

\* Local: a request is served; the directory changes.
LocalStep ==
    \/ proc = "running" /\ LocalList /\ UNCHANGED life
    \/ \E uri \in ReadUris : proc = "running" /\ LocalRead(uri) /\ UNCHANGED life
    \/ \E v \in SourceStates : proc = "running" /\ variant = "Local" /\ SourceChange(v) /\ UNCHANGED life
    \/ proc = "running" /\ DirRemove /\ UNCHANGED life
    \/ proc = "running" /\ DirCreate /\ UNCHANGED life

\* SIGINT or SIGTERM arrives.  With the handlers registered (lines 190-198 /
\* 118-126): clearInterval or watcher.close(), then process.exit(0).
\* Without them the signal has its default effect: it kills the process.
\* Local: main() runs to its first await without a break, so no signal is
\* handled before setupFileWatcher has run.
Signal(sig) ==
    /\ proc = "running"
    /\ variant = "Local" => phase # "loading"
    /\ IF bg = "active"
       THEN bg' = "closed" /\ proc' = "exit0"
       ELSE bg' = bg /\ proc' = "killed"
    /\ resp' = NoResp
    /\ UNCHANGED <<variant, phase, src, dirExists, cachedRules, lastEtag, cyc, mq, ran,
                   calm, titled, trip>>

NextLife ==
    \/ \E c \in Slots : RemoteStarted(c)
    \/ \E c \in Slots : RemotePoll(c)
    \/ RemoteStep
    \/ LocalStarted
    \/ LocalStep
    \/ \E sig \in {"SIGINT", "SIGTERM"} : Signal(sig)

\* Both variants with the signals, and no request to the Remote variant.
SpecLife == Init /\ [][NextLife]_vars

\* ================================================================ properties
\* A request was answered by the last step.
Answered == resp.op \in {"list", "read"}

\* The file `name` is in the rules directory now.
InDir(name) == dirExists /\ Exists(src, name)

\* Every entry of `rules` was taken from the same listing, which names it
\* with the sha the entry has.
FromOneListing(rules) ==
    /\ \A n, m \in Keys(rules) : rules[n].listing = rules[m].listing
    /\ \A n \in Keys(rules) :
         \E i \in 1..Len(rules[n].listing) :
            /\ rules[n].listing[i].name = n
            /\ variant = "Remote" => rules[n].listing[i].sha = rules[n].sha

\* ------------------------------------------------------------------- C1
\* C1: Remote: when the caller of a refresh cycle whose listing request
\* failed assigns the cycle's result, the snapshot loses no entry: every name
\* cached before the assignment is cached after it.
C1_FailedListingKeepsSnapshot ==
    [][\A c \in Slots :
          (Publish(c) /\ cyc[c].outcome = "listfail")
             => Keys(cachedRules) \subseteq Keys(cachedRules')]_vars

\* ------------------------------------------------------------------- C2
\* C2: the mapping cachedRules, which is what a handler answers from, is at
\* every moment the whole result of one refresh: all its entries come from
\* one listing; a list answer names exactly its keys and the read of a key
\* gives the content it holds; and only cycles that have finished building
\* wait to be published.
C2_SnapshotFromOneCycle ==
    /\ FromOneListing(cachedRules)
    /\ \A i \in 1..Len(mq) : cyc[mq[i]].pc = "returned" /\ cyc[mq[i]].todo = <<>>
    /\ (resp.op = "list" /\ resp.status = "ok") => resp.uris = ResourcesOf(cachedRules)
    /\ (resp.op = "read" /\ resp.status = "ok"
           /\ FilenameOf(resp.uri) \in Keys(cachedRules)) =>
          resp.text = cachedRules[FilenameOf(resp.uri)].content

\* A request is answered while another cycle has built part of a mapping
\* from a listing other than the one the snapshot was built from.
C2_Witness ==
    /\ Answered /\ resp.status = "ok"
    /\ \E c \in Slots :
         /\ cyc[c].pc = "fetching"
         /\ \E n \in Keys(cyc[c].rules), m \in Keys(cachedRules) :
               cyc[c].rules[n].listing # cachedRules[m].listing

\* ------------------------------------------------------------------- C3
\* C3: a refresh whose listing succeeded ends without an exception, and the
\* names of the mapping it returns and publishes are the rule files the
\* listing named minus those that could not be fetched or read, whatever the
\* snapshot held before.
C3_FailedDocumentsOmitted ==
    /\ \A c \in Slots :
         cyc[c].outcome = "built" =>
            /\ ~cyc[c].threw
            /\ Keys(cyc[c].ret) = cyc[c].listed \ cyc[c].failed
    /\ (Answered /\ resp.outcome = "built") =>
            /\ resp.status \in {"ok", "NotFound"}
            /\ Keys(cachedRules) = resp.listed \ resp.failed

\* A request was answered by a refresh that could not get a listed file of
\* which the snapshot held a version.
C3_Witness ==
    /\ Answered /\ resp.outcome = "built"
    /\ resp.failed \cap resp.listed \cap Keys(resp.before) # {}
    /\ resp.listed \ resp.failed # {}

\* ------------------------------------------------------------------- C4
\* C4: Remote: when the caller of a refresh cycle whose listing was answered
\* 304 assigns the cycle's result, the snapshot stays as it is.
C4_NotModifiedKeepsSnapshot ==
    [][\A c \in Slots :
          (Publish(c) /\ cyc[c].outcome = "304") => cachedRules' = cachedRules]_vars

\* ------------------------------------------------------------------- C5
\* C5: Remote: no listing request and no download is ever made on behalf of
\* listResources or readResource.
C5_ReadsMakeNoRequest ==
    \A c \in Slots : cyc[c].kind \notin {"list", "read"}

\* ------------------------------------------------------------------- C6
\* C6: listResources always succeeds; readResource fails only with NotFound,
\* for a name that is not in the snapshot, or with the TypeError of an
\* identifier that is no URL.
C6_OnlyCallerErrors ==
    /\ resp.op = "list" => resp.status = "ok"
    /\ resp.op = "read" =>
          \/ resp.status = "ok"
          \/ /\ resp.status = "NotFound"
             /\ UrlValid(resp.uri)
             /\ FilenameOf(resp.uri) \notin Keys(cachedRules)
          \/ /\ resp.status = "TypeError"
             /\ ~UrlValid(resp.uri)

\* listResources was answered by a call whose refresh failed: the listing
\* request, the parse of its answer, or reading the directory.
C6_Witness ==
    /\ resp.op = "list" /\ resp.status = "ok"
    /\ resp.outcome \in {"listfail", "badjson", "readdirfail"}

\* ------------------------------------------------------------------- C7
\* C7: a readResource whose identifier is a URL rule:///<name> with <name> not
\* a key of the snapshot is answered NotFound, without content.
C7_AbsentNameNotFound ==
    (resp.op = "read" /\ UrlValid(resp.uri)
        /\ FilenameOf(resp.uri) \notin Keys(cachedRules))
       => (resp.status = "NotFound" /\ resp.text = "")

\* ------------------------------------------------------------------- C8
\* C8: Local: after every listResources and every readResource with a valid
\* identifier, the snapshot and the answer are those of the directory as it
\* is: every entry is a file of the directory with its current content, every
\* rule file that could be read is an entry, the list names the entries, and
\* the read of a rule file gives its current content if it is there and
\* readable, NotFound if not.
C8_LocalAnswersAreCurrent ==
    (variant = "Local" /\ Answered /\ resp.status # "TypeError") =>
       /\ \A n \in Keys(cachedRules) :
             InDir(n) /\ cachedRules[n].content = BodyOf(src, n)
       /\ resp.outcome = "built" =>
             \A n \in {ChangingFile, StableFile} :
                (InDir(n) /\ n \notin resp.failed) => n \in Keys(cachedRules)
       /\ resp.op = "list" => resp.uris = ResourcesOf(cachedRules)
       /\ (resp.op = "read" /\ FilenameOf(resp.uri) \in {ChangingFile, StableFile}) =>
             IF InDir(FilenameOf(resp.uri)) /\ FilenameOf(resp.uri) \notin resp.failed
                   /\ resp.outcome = "built"
             THEN resp.status = "ok" /\ resp.text = BodyOf(src, FilenameOf(resp.uri))
             ELSE resp.status = "NotFound"

\* listResources after a file of the previous snapshot was deleted.
C8_Witness ==
    /\ variant = "Local" /\ resp.op = "list" /\ resp.outcome = "built"
    /\ ChangingFile \in Keys(resp.before)
    /\ ~InDir(ChangingFile)
    /\ UriOf(StableFile) \in {resp.uris[i] : i \in 1..Len(resp.uris)}

\* ------------------------------------------------------------------- C9
\* C9: Remote: when the result of a refresh cycle that built a mapping
\* replaces the snapshot, every name that both hold with the same sha has the
\* same content in both.
C9_SameShaSameContent ==
    [][\A c \in Slots :
          (Publish(c) /\ cyc[c].outcome = "built") =>
             \A n \in Keys(cachedRules) \cap Keys(cachedRules') :
                cachedRules[n].sha = cachedRules'[n].sha
                   => cachedRules[n].content = cachedRules'[n].content]_vars

\* ------------------------------------------------------------------ C10
\* C10: Local: a listResources while the rules directory does not exist
\* succeeds with an empty list and leaves the snapshot empty.
C10_MissingDirectoryIsEmpty ==
    (variant = "Local" /\ resp.op = "list" /\ ~dirExists) =>
       /\ resp.status = "ok"
       /\ resp.outcome = "nodir"
       /\ resp.uris = <<>>
       /\ cachedRules = EmptyMap

\* listResources with the directory gone and a snapshot that was not empty.
C10_Witness ==
    /\ variant = "Local" /\ resp.op = "list" /\ ~dirExists
    /\ Keys(resp.before) # {}
    /\ resp.uris = <<>>

\* ------------------------------------------------------------------ titles
\* Strings are sequences of characters here.  Longest body tried.
MaxBodyLen == 4

\* The characters of the bodies tried: '#', space, a letter, LF and CR.
BodyChars == {"#", " ", "a", "\n", "\r"}

\* The bodies tried.
TitleBodies == UNION {[1..n -> BodyChars] : n \in 0..MaxBodyLen}

\* The names tried, all ending in .md: foo.md, a.md.md, x.mdx.md
TitleNames ==
    { <<"f", "o", "o", ".", "m", "d">>,
      <<"a", ".", "m", "d", ".", "m", "d">>,
      <<"x", ".", "m", "d", "x", ".", "m", "d">> }

\* '.md'
DotMd == <<".", "m", "d">>

\* The characters \s matches, and those . does not match.
IsWhitespace(ch) == ch \in {" ", "\t", "\n", "\r"}
IsLineTerminator(ch) == ch \in {"\n", "\r"}

\* content.split('\n')
RECURSIVE SplitLines(_)
SplitLines(content) ==
    IF \A i \in 1..Len(content) : content[i] # "\n"
    THEN <<content>>
    ELSE LET i == CHOOSE k \in 1..Len(content) :
                     content[k] = "\n" /\ \A j \in 1..(k - 1) : content[j] # "\n"
         IN  <<SubSeq(content, 1, i - 1)>> \o SplitLines(SubSeq(content, i + 1, Len(content)))

\* line.match(/^#\s+(.+)$/): the places where the group may start: after
\* '#' and one or more whitespace characters, with one or more characters
\* other than line terminators up to the end of the line.
GroupStarts(line) ==
    {k \in 3..Len(line) :
        /\ line[1] = "#"
        /\ \A i \in 2..(k - 1) : IsWhitespace(line[i])
        /\ \A i \in k..Len(line) : ~IsLineTerminator(line[i])}

\* match[1]: \s+ is greedy, so the group starts as late as it can.
MatchGroup(line) ==
    LET k == CHOOSE m \in GroupStarts(line) : \A n \in GroupStarts(line) : n <= m
    IN  SubSeq(line, k, Len(line))

\* String.prototype.trim
Trim(str) ==
    LET keep == {i \in 1..Len(str) : ~IsWhitespace(str[i])}
    IN  IF keep = {} THEN <<>>
        ELSE LET lo == CHOOSE i \in keep : \A j \in keep : i <= j
                 hi == CHOOSE i \in keep : \A j \in keep : j <= i
             IN  SubSeq(str, lo, hi)

\* str.replace(pat, ''): a string pattern replaces its first occurrence only.
ReplaceFirst(str, pat) ==
    LET at == {i \in 1..(Len(str) - Len(pat) + 1) : SubSeq(str, i, i + Len(pat) - 1) = pat}
    IN  IF at = {} THEN str
        ELSE LET i == CHOOSE k \in at : \A j \in at : k <= j
             IN  SubSeq(str, 1, i - 1) \o SubSeq(str, i + Len(pat), Len(str))

\* The first line that matches, as <<line>>, or <<>>.
FirstMatch(lines) ==
    LET hits == {i \in 1..Len(lines) : GroupStarts(lines[i]) # {}}
    IN  IF hits = {} THEN <<>>
        ELSE <<lines[CHOOSE i \in hits : \A j \in hits : i <= j]>>

\* extractTitle(content, filename), index.ts lines 48-57.
ExtractTitle(content, filename) ==
    LET hit == FirstMatch(SplitLines(content))
    IN  IF hit # <<>> THEN Trim(MatchGroup(hit[1]))
        ELSE ReplaceFirst(filename, DotMd)

\* The title loadRules computes, part_000 lines 59-69: the default first,
\* overwritten by the first match.
LocalTitle(content, filename) ==
    LET title == ReplaceFirst(filename, DotMd)
        hit == FirstMatch(SplitLines(content))
    IN  IF hit # <<>> THEN Trim(MatchGroup(hit[1])) ELSE title

\* Both implementations are applied once to a body and a name.
ComputeTitle ==
    /\ titled = NoTitle
    /\ \E body \in TitleBodies, name \in TitleNames :
          titled' = [body |-> body, name |-> name,
                     remote |-> ExtractTitle(body, name),
                     local |-> LocalTitle(body, name)]
    /\ UNCHANGED <<variant, phase, src, dirExists, cachedRules, lastEtag, cyc, mq, ran,
                   resp, proc, bg, calm, trip>>

InitTitle == InitLocal /\ dirExists /\ src = StableBody

\* The two title functions on their own.
SpecTitle == InitTitle /\ [][ComputeTitle]_vars

\* The name without its last three characters, the extension.
WithoutExtension(name) == SubSeq(name, 1, Len(name) - 3)

\* ------------------------------------------------------------------ C14
\* C14: for a body none of whose lines begins with '#', both variants give
\* the title that is the name with its .md extension removed.
C14_TitleFallsBackOnName ==
    (titled # NoTitle
       /\ \A i \in 1..Len(SplitLines(titled.body)) :
             LET line == SplitLines(titled.body)[i]
             IN  line = <<>> \/ line[1] # "#")
      => (titled.remote = WithoutExtension(titled.name)
            /\ titled.local = WithoutExtension(titled.name))

\* ------------------------------------------------------------------ C13
\* C13: once the server is serving, a termination signal ends the process
\* with exit code 0 and with the interval timer or watcher closed.
C13_SignalExitsCleanly ==
    (phase = "serving" /\ proc # "running") => (proc = "exit0" /\ bg = "closed")

\* ------------------------------------------------------------------ C11
\* C11: a readResource whose identifier cannot be parsed is answered with
\* the NotFound error that the read of an absent name gets.
C11_MalformedIsNotFound ==
    (resp.op = "read" /\ ~UrlValid(resp.uri)) => resp.status = "NotFound"

\* ------------------------------------------------------------------ C12
\* C12: the list answer has one entry per record of the snapshot, no
\* identifier twice, and every identifier is "rule:///" followed by the name
\* of a record.
C12_OneEntryPerRecord ==
    resp.op = "list" =>
       /\ Len(resp.uris) = Cardinality(Keys(cachedRules))
       /\ \A i, j \in 1..Len(resp.uris) : resp.uris[i] = resp.uris[j] => i = j
       /\ \A i \in 1..Len(resp.uris) :
             \E n \in Keys(cachedRules) : resp.uris[i] = "rule:///" \o n
       /\ \A n \in Keys(cachedRules) :
             \E i \in 1..Len(resp.uris) : resp.uris[i] = "rule:///" \o n

\* A list answer for a snapshot of two records.
C12_Witness ==
    /\ resp.op = "list"
    /\ Cardinality(Keys(cachedRules)) = 2
    /\ Len(resp.uris) = 2

\* ------------------------------------------------------------------ C15
\* C15: a poll tick starts a refresh cycle only when no other cycle (of an
\* earlier tick, of the initial load or of a request) is in flight.
C15_PollNotReentered ==
    [][\A c \in Slots :
         (cyc[c].pc = "unused" /\ cyc'[c].kind = "poll")
           => \A d \in Slots : cyc[d].pc = "unused"]_vars

\* ------------------------------------------------------------------ C16
\* C16: Local: a refresh that finds the rules directory missing leaves the
\* snapshot as it was before the refresh, and a list request answered by
\* that refresh lists the documents of that snapshot.
C16_MissingDirectoryKeepsSnapshot ==
    (variant = "Local" /\ Answered /\ resp.outcome = "nodir") =>
       /\ cachedRules = resp.before
       /\ resp.op = "list" => Len(resp.uris) = Cardinality(Keys(resp.before))

\* ------------------------------------------------------------------ C17
\* C17: when a timer callback's fetchRulesFromGitHub has returned, the
\* mapping it returned is the current snapshot afterwards, whether the
\* comparison with the previous snapshot logged a change or nothing.
C17_PollAlwaysSwaps ==
    (resp.op = "poll" /\ resp.status = "ok") => cachedRules = resp.built

\* A poll cycle built a mapping, the comparison logged nothing (same names,
\* same fingerprints), and the swap replaced a body all the same.
C17_Witness ==
    /\ resp.op = "poll" /\ resp.status = "ok"
    /\ resp.outcome = "built" /\ resp.diff = "same"
    /\ cachedRules = resp.built
    /\ \E n \in Keys(cachedRules) : resp.before[n].content # cachedRules[n].content

\* ------------------------------------------------------------------ C18
\* The place of a source state in the history of a repository whose
\* changing file is first added and then changed, and never goes back.
CommitOrder == <<Absent, "v1", "v2">>
Rank(s) == CHOOSE i \in 1..Len(CommitOrder) : CommitOrder[i] = s

\* The source only moves forward.
Forward == src' # src => Rank(src') > Rank(src)

NextMono ==
    \/ \E c \in Slots : RemoteListStart(c) /\ UNCHANGED life
    \/ \E c \in Slots, uri \in ReadUris : RemoteReadStart(c, uri) /\ UNCHANGED life
    \/ \E c \in Slots : PollStart(c) /\ UNCHANGED life
    \/ \E c \in Slots : ServerListing(c) /\ UNCHANGED life
    \/ \E c \in Slots : ListingFails(c) /\ UNCHANGED life
    \/ \E c \in Slots : ReceiveListing(c) /\ UNCHANGED life
    \/ \E c \in Slots : ParseFail(c) /\ UNCHANGED life
    \/ \E c \in Slots : FetchContent(c) /\ UNCHANGED life
    \/ \E c \in Slots : Publish(c) /\ UNCHANGED life
    \/ \E v \in SourceStates : SourceChange(v) /\ Forward /\ UNCHANGED life

\* Remote with a source that only moves forward: the age of a listing can
\* be read from the listing.
SpecMono == InitRemote /\ [][NextMono]_vars

\* The source state a listing was taken in.
StateOfListing(files) ==
    CHOOSE s \in SourceStates : Listing(s) = files

\* The listing a snapshot that is not empty was built from.
ListingOf(rules) == rules[CHOOSE n \in Keys(rules) : TRUE].listing

\* C18: with a source that only moves forward, when a request or a timer
\* callback has assigned the snapshot, the snapshot is not built from an
\* older listing than the snapshot it replaced.
C18_NoOlderGeneration ==
    (resp.op \in {"list", "read", "poll"}
       /\ Keys(resp.before) # {} /\ Keys(cachedRules) # {})
      => Rank(StateOfListing(ListingOf(cachedRules)))
           >= Rank(StateOfListing(ListingOf(resp.before)))

\* ------------------------------------------------------------------ C19
\* No refresh cycle is in flight.
Idle == \A c \in Slots : cyc[c].pc = "unused"

\* `rules` holds every rule file of the listing `files` and nothing else,
\* each entry taken from that listing.
BuiltFrom(rules, files) ==
    /\ Keys(rules) = SeqNames(MdFiles(files))
    /\ \A n \in Keys(rules) : rules[n].listing = files /\ rules[n].sha = EntryOf(StateOfListing(files), n).sha

\* C19: Remote: whenever no refresh cycle is in flight and a validator
\* token is stored, the snapshot is the mapping built from the listing the
\* token was sent with.
C19_TokenMatchesSnapshot ==
    (variant = "Remote" /\ phase = "serving" /\ Idle /\ lastEtag # <<>>)
      => BuiltFrom(cachedRules, lastEtag[1])

\* ------------------------------------------------------------------ C20
\* The timer fires while no cycle is in flight.
SerialPoll(c) == Idle /\ PollStart(c)

\* Polling before the source has settled: the timer callbacks run one
\* after the other, requests may fail and the source may change.
BeforeCalm ==
    \/ \E c \in Slots : ~calm /\ SerialPoll(c) /\ UNCHANGED life
    \/ \E c \in Slots : ~calm /\ ServerListing(c) /\ UNCHANGED life
    \/ \E c \in Slots : ~calm /\ ListingFails(c) /\ UNCHANGED life
    \/ \E c \in Slots : ~calm /\ ReceiveListing(c) /\ UNCHANGED life
    \/ \E c \in Slots : ~calm /\ ParseFail(c) /\ UNCHANGED life
    \/ \E c \in Slots : ~calm /\ FetchContent(c) /\ UNCHANGED life
    \/ \E c \in Slots : ~calm /\ Publish(c) /\ UNCHANGED life
    \/ \E v \in SourceStates : ~calm /\ SourceChange(v) /\ UNCHANGED life

\* From here on the source does not change and every request succeeds.
Settle ==
    /\ ~calm
    /\ variant = "Remote" /\ phase = "serving"
    /\ Idle /\ Quiet
    /\ calm' = TRUE
    /\ resp' = NoResp
    /\ UNCHANGED <<variant, phase, src, dirExists, cachedRules, lastEtag, cyc, mq, ran,
                   proc, bg, titled, trip>>

\* Polling once the source has settled: the listing request is answered
\* (304 if the validator matches), its body parses, every download succeeds.
AfterCalm ==
    \/ \E c \in Slots : calm /\ SerialPoll(c) /\ UNCHANGED life
    \/ \E c \in Slots : calm /\ ServerListing(c) /\ UNCHANGED life
    \/ \E c \in Slots : calm /\ ReceiveListing(c) /\ cyc'[c].pc # "parsing" /\ UNCHANGED life
    \/ \E c \in Slots : calm /\ FetchContent(c) /\ cyc'[c].failed = cyc[c].failed /\ UNCHANGED life
    \/ \E c \in Slots : calm /\ Publish(c) /\ UNCHANGED life

NextCalm == BeforeCalm \/ Settle \/ AfterCalm

\* Remote with serial polls only.  Once the source has settled the timer
\* keeps firing and every request is answered.
SpecCalm == InitRemote /\ [][NextCalm]_vars /\ WF_vars(AfterCalm)

\* The snapshot holds exactly the rule files of the source, each with the
\* body it has now.
Converged ==
    /\ Keys(cachedRules) = {n \in {ChangingFile, StableFile} : Exists(src, n)}
    /\ \A n \in Keys(cachedRules) : cachedRules[n].content = BodyOf(src, n)

\* C20: Remote: once the source has settled and every request succeeds,
\* polling brings the snapshot to the rule files of the source with their
\* current bodies, whatever failed before.
C20_PollingConverges == calm ~> Converged

\* ------------------------------------------------------------ round trip
\* Identifiers as sequences of characters.  The names tried, all ending in
\* .md: a.md, 'a b.md', a%20b.md, a#b.md, a?b.md, a%.md
UriNames ==
    { <<"a", ".", "m", "d">>,
      <<"a", " ", "b", ".", "m", "d">>,
      <<"a", "%", "2", "0", "b", ".", "m", "d">>,
      <<"a", "#", "b", ".", "m", "d">>,
      <<"a", "?", "b", ".", "m", "d">>,
      <<"a", "%", ".", "m", "d">> }

\* The snapshots tried: any of the names, none of them an empty snapshot.
UriSnapshots == (SUBSET UriNames) \ {{}}

\* The mapping that holds the names of `snapshot`, each with a body of its own.
RulesOf(snapshot) ==
    [n \in snapshot |-> [filename |-> n, content |-> <<"body of">> \o n]]

\* 'rule:'
RuleScheme == <<"r", "u", "l", "e", ":">>

\* uri: `rule:///${filename}` in the ListResources handlers.
TemplateUri(filename) == RuleScheme \o <<"/", "/", "/">> \o filename

\* new URL(uri) for a string that begins with 'rule://': the place where the
\* host ends, which is the first '/', '?' or '#' after 'rule://'.
HostEnd(uri) ==
    LET stops == {i \in (Len(RuleScheme) + 3)..Len(uri) : uri[i] \in {"/", "?", "#"}}
    IN  IF stops = {} THEN Len(uri) + 1
        ELSE CHOOSE i \in stops : \A j \in stops : i <= j

\* The place where the path ends: the first '?' (the query starts) or '#'
\* (the fragment starts) from the end of the host on.
PathEnd(uri) ==
    LET stops == {i \in HostEnd(uri)..Len(uri) : uri[i] \in {"?", "#"}}
    IN  IF stops = {} THEN Len(uri) + 1
        ELSE CHOOSE i \in stops : \A j \in stops : i <= j

\* The URL parser percent-encodes the characters of the path percent-encode
\* set, of which these are five; '%' is not in that set, and nothing is
\* decoded.
PercentEncoded(ch) ==
    CASE ch = " " -> <<"%", "2", "0">>
      [] ch = "<" -> <<"%", "3", "C">>
      [] ch = ">" -> <<"%", "3", "E">>
      [] ch = "{" -> <<"%", "7", "B">>
      [] ch = "}" -> <<"%", "7", "D">>
      [] OTHER -> <<ch>>

RECURSIVE EncodePath(_)
EncodePath(path) ==
    IF path = <<>> THEN <<>>
    ELSE PercentEncoded(Head(path)) \o EncodePath(Tail(path))

\* new URL(uri).pathname for a string that begins with 'rule://' (no name
\* tried is a '.' or '..' segment, which the parser would resolve).
PathnameOf(uri) == EncodePath(SubSeq(uri, HostEnd(uri), PathEnd(uri) - 1))

\* pathname.replace(/^\//, '')
StripLeadingSlash(path) ==
    IF path # <<>> /\ Head(path) = "/" THEN Tail(path) ELSE path

\* const filename = url.pathname.replace(/^\//, '')
ParsedFilename(uri) == StripLeadingSlash(PathnameOf(uri))

\* A ListResources answer on the mapping of `snapshot`, then a ReadResource
\* request with the identifier of its entry for `name`, on the same mapping:
\* rules[filename], 'not found' if there is none, else its content.  (No
\* parsed filename here is the name of a property of Object.prototype.)
FollowIdentifier ==
    /\ trip = NoTrip
    /\ \E snapshot \in UriSnapshots : \E name \in snapshot :
         LET rules == RulesOf(snapshot)
             uri == TemplateUri(name)
             filename == ParsedFilename(uri)
             found == filename \in DOMAIN rules
         IN  trip' = [snapshot |-> snapshot, name |-> name, uri |-> uri,
                      filename |-> filename,
                      status |-> IF found THEN "ok" ELSE "NotFound",
                      text |-> IF found THEN rules[filename].content ELSE <<>>]
    /\ UNCHANGED <<variant, phase, src, dirExists, cachedRules, lastEtag, cyc, mq, ran,
                   resp, proc, bg, calm, titled>>

\* The two handlers on their own, on a snapshot that does not change.
SpecUri == InitTitle /\ [][FollowIdentifier]_vars

\* ------------------------------------------------------------------ C21
\* C21: reading the identifier of a listed entry, on the snapshot that was
\* listed, succeeds and gives the body of the record the entry was made
\* from, whatever characters the name holds.
C21_IdentifierRoundTrip ==
    trip # NoTrip =>
       /\ trip.status = "ok"
       /\ trip.text = RulesOf(trip.snapshot)[trip.name].content

====
